---- MODULE Spec2Model ----
(***************************************************************************)
(* A model of cbreeze.py: the wind field (update_wind_pattern), the        *)
(* particles (WindParticle.update / reset), the particle population        *)
(* (generate_particles), the density map and the simulation loop           *)
(* (wind_simulation) and the process around it (main).                     *)
(*                                                                         *)
(* Numbers.  Python floats are modelled as fixed-point integers with three *)
(* decimals: the float v is the integer v * Scale (0.03 s is 30, a         *)
(* position of 2.5 columns is 2500, pi is 3142).  Products and quotients   *)
(* round down to the next representable value.  Rows, columns, layers and  *)
(* glyph indices are plain integers.                                       *)
(*                                                                         *)
(* Randomness.  The random module is a deterministic generator with a      *)
(* hidden state.  It is modelled as a position rng in a cyclic table of    *)
(* outcomes of random.random(); uniform, randint and choice are computed   *)
(* from random() outcomes.  Where a specification explores an operation on *)
(* its own, the position the operation starts from is chosen freely.       *)
(***************************************************************************)
EXTENDS Integers, Sequences, FiniteSets, TLC

VARIABLES
    running,                \* wind_simulation: TRUE inside `while True`, FALSE after break
    key,                    \* wind_simulation: the key polled by the last getch()
    show_density,           \* WindSimulation.show_density
    high_density,           \* WindSimulation.high_density
    wind_strength,          \* WindSimulation.wind_strength
    wind_direction,         \* WindSimulation.wind_direction
    base_wind_strength,     \* WindSimulation.base_wind_strength
    wind_variation_timer,   \* WindSimulation.wind_variation_timer
    gust_timer,             \* WindSimulation.gust_timer
    gust_active,            \* WindSimulation.gust_active
    gust_strength,          \* WindSimulation.gust_strength
    gust_duration,          \* update_wind_pattern: local gust_duration of the last call (0: not sampled)
    progress,               \* update_wind_pattern: local progress of the last call (-1: not computed)
    particles,              \* WindSimulation.particles
    rows,                   \* WindSimulation.rows
    cols,                   \* WindSimulation.cols
    frame_count,            \* WindSimulation.frame_count
    density_layers,         \* WindSimulation.density_layers
    direction_draw,         \* update_wind_pattern: what random.random() gave on line 182 in the last call
    screen,                 \* the cells of stdscr as the last draw() left them (without the text of draw_ui)
    rng,                    \* state of the random module's generator
    resets,                 \* per particle: the reset() calls of its last update, as generator positions
    terminal,               \* curses: TRUE between initscr() and endwin()
    stdout,                 \* what print() wrote, each text with the value of terminal at that time
    exit_status             \* exit status of the process (-1: still running)

vars == <<running, key, show_density, high_density, wind_strength, wind_direction,
          base_wind_strength, wind_variation_timer, gust_timer, gust_active,
          gust_strength, gust_duration, progress, particles, rows, cols,
          frame_count, density_layers, direction_draw, screen, rng, resets,
          terminal, stdout, exit_status>>

\* the state of the process outside the simulation
main_vars == <<terminal, stdout, exit_status>>

-----------------------------------------------------------------------------
(* Fixed-point arithmetic *)

Scale == 10 * 10 * 10

Mul(a, b) == (a * b) \div Scale

Div(a, b) == (a * Scale) \div b

Min(a, b) == IF a < b THEN a ELSE b

Max(a, b) == IF a > b THEN a ELSE b

\* int(v) of a float: truncation toward zero
Trunc(v) == IF v >= 0 THEN v \div Scale ELSE -((-v) \div Scale)

\* math.pi
Pi == 3142

\* sin on [0, pi], Bhaskara's rational approximation (error below 0.002)
SinHalf(a) ==
    LET q == (a * (Pi - a)) \div Scale
        pi2 == (Pi * Pi) \div Scale
    IN  (16 * q * Scale) \div (5 * pi2 - 4 * q)

\* math.sin
Sin(a) ==
    LET r == a % (2 * Pi)
    IN  IF r <= Pi THEN SinHalf(r) ELSE -SinHalf(r - Pi)

\* math.cos
Cos(a) == Sin(a + Pi \div 2)

-----------------------------------------------------------------------------
(* The random module *)

\* outcomes of random.random(), in thousandths
RandomTable == <<0, 999, 500, 2, 250, 750, 7, 600, 100, 900, 350, 4>>

Seeds == 0 .. (Len(RandomTable) - 1)

\* random.random() at generator position r; the generator then moves to Advance(r, 1)
Random(r) == RandomTable[(r % Len(RandomTable)) + 1]

Advance(r, n) == (r + n) % Len(RandomTable)

\* random.uniform(a, b) = a + (b - a) * random()
Uniform(a, b, r) == a + Mul(b - a, Random(r))

\* random.randint(a, b): an integer of a..b
RandInt(a, b, r) == a + (Random(r) * (b - a + 1)) \div Scale

\* random.choice(seq) as the index (from 0) of the chosen element
Choice(n, r) == (Random(r) * n) \div Scale

-----------------------------------------------------------------------------
(* Program constants *)

UPDATE_INTERVAL == 30

\* the glyph tables, each glyph by its Unicode name
WIND_CHARS ==
    <<"middle_dot", "degree", "tilde", "therefore", "because", "vertical_ellipsis",
      "midline_ellipsis", "presentation_vertical_ellipsis", "braille_7", "braille_37",
      "braille_237", "braille_1237", "braille_78", "braille_3678", "braille_23678",
      "braille_235678", "braille_1235678", "braille_12345678">>

WIND_PARTICLES ==
    <<"light_shade", "medium_shade", "dark_shade", "full_block", "right_one_quarter",
      "right_three_eighths", "right_half", "right_five_eighths">>

\* random.choice(seq)
ChoiceOf(seq, r) == seq[Choice(Len(seq), r) + 1]

-----------------------------------------------------------------------------
(* WindParticle *)

\* WindParticle.__init__: returns the particle and the generator position after it
NewParticle(x, y, max_rows, max_cols, density_mode, r) ==
    [p |-> [x            |-> x * Scale,
            y            |-> y * Scale,
            max_rows     |-> max_rows,
            max_cols     |-> max_cols,
            speed        |-> Uniform(500, 1500, r),
            char         |-> ChoiceOf(WIND_CHARS, r + 1),
            amplitude    |-> Uniform(800, 3000, r + 2),
            frequency    |-> Uniform(200, 500, r + 3),
            phase        |-> Uniform(0, 2 * Pi, r + 4),
            original_x   |-> x * Scale,
            lifetime     |-> Uniform(2000, 6000, r + 5),
            age          |-> 0,
            density_char |-> ChoiceOf(WIND_PARTICLES, r + 6),
            density      |-> Random(r + 7),
            density_mode |-> density_mode,
            layer        |-> RandInt(1, 3, r + 8),
            opacity      |-> Uniform(700, 1000, r + 9)],
     rng |-> Advance(r, 10)]

\* reset without line 80: the speed of the particle before the reset is kept
reset_keeps_speed(self, r) ==
    LET edge == Random(r) < 300
        k    == IF edge THEN 1 ELSE 2
    IN  [p |-> [self EXCEPT
                  !.x            = IF edge THEN 0
                                   ELSE RandInt(0, self.max_cols - 1, r + 1) * Scale,
                  !.y            = RandInt(0, self.max_rows - 1, r + k) * Scale,
                  !.char         = ChoiceOf(WIND_CHARS, r + k + 2),
                  !.amplitude    = Uniform(800, 3000, r + k + 3),
                  !.frequency    = Uniform(200, 500, r + k + 4),
                  !.phase        = Uniform(0, 2 * Pi, r + k + 5),
                  !.lifetime     = Uniform(2000, 6000, r + k + 6),
                  !.age          = 0,
                  !.density_char = ChoiceOf(WIND_PARTICLES, r + k + 7),
                  !.density      = Random(r + k + 8),
                  !.layer        = RandInt(1, 3, r + k + 9),
                  !.opacity      = Uniform(700, 1000, r + k + 10)],
         rng |-> Advance(r, k + 11)]

\* WindParticle.reset: returns the particle and the generator position after it
reset(self, r) ==
    LET edge == Random(r) < 300
        k    == IF edge THEN 1 ELSE 2
    IN  [p |-> [self EXCEPT
                  !.x            = IF edge THEN 0
                                   ELSE RandInt(0, self.max_cols - 1, r + 1) * Scale,
                  !.y            = RandInt(0, self.max_rows - 1, r + k) * Scale,
                  !.speed        = Uniform(500, 1500, r + k + 1),
                  !.char         = ChoiceOf(WIND_CHARS, r + k + 2),
                  !.amplitude    = Uniform(800, 3000, r + k + 3),
                  !.frequency    = Uniform(200, 500, r + k + 4),
                  !.phase        = Uniform(0, 2 * Pi, r + k + 5),
                  !.lifetime     = Uniform(2000, 6000, r + k + 6),
                  !.age          = 0,
                  !.density_char = ChoiceOf(WIND_PARTICLES, r + k + 7),
                  !.density      = Random(r + k + 8),
                  !.layer        = RandInt(1, 3, r + k + 9),
                  !.opacity      = Uniform(700, 1000, r + k + 10)],
         rng |-> Advance(r, k + 11)]

\* WindParticle.update, lines 48-57: age, horizontal move, vertical wave
move(self, ws, wd) ==
    LET age            == self.age + UPDATE_INTERVAL
        layer_speed    == Mul(self.speed, Scale + (self.layer - 1) * 300)
        base_wave      == Mul(Sin(Mul(age, self.frequency) * 8 + self.phase),
                              self.amplitude)
        secondary_wave == Mul(Mul(Cos(Mul(age, self.frequency) * 4 + self.phase * 2),
                                  self.amplitude), 300)
        wave_offset    == Mul(base_wave + secondary_wave, 400)
    IN  [self EXCEPT !.age = age,
                     !.x   = @ + Mul(layer_speed, ws) * wd,
                     !.y   = @ + wave_offset]

\* bounce with the upper clamp one row too low on the screen (y = max_rows)
bounce_clamp_to_max_rows(self) ==
    IF self.y >= self.max_rows * Scale
    THEN [self EXCEPT !.y = self.max_rows * Scale, !.phase = @ + Pi]
    ELSE IF self.y < 0
         THEN [self EXCEPT !.y = 0, !.phase = @ + Pi]
         ELSE self

\* WindParticle.update, lines 62-67: vertical clamp with phase reversal
bounce(self) ==
    IF self.y >= self.max_rows * Scale
    THEN [self EXCEPT !.y = (self.max_rows - 1) * Scale, !.phase = @ + Pi]
    ELSE IF self.y < 0
         THEN [self EXCEPT !.y = 0, !.phase = @ + Pi]
         ELSE self

\* the result of WindParticle.update so far: the particle, the generator position
\* and the generator positions at which reset() was called
Updated(p, r, rs) == [p |-> p, rng |-> r, resets |-> rs]

\* a reset() called at generator position r inside update
reset_in_update(u) ==
    Updated(reset(u.p, u.rng).p, reset(u.p, u.rng).rng, Append(u.resets, u.rng))

\* WindParticle.update, lines 59-60: the horizontal exit
horizontal_exit(u) ==
    IF u.p.x >= u.p.max_cols * Scale \/ u.p.x < 0 THEN reset_in_update(u) ELSE u

\* WindParticle.update, lines 62-67, on the result so far
vertical_exit(u) == [u EXCEPT !.p = bounce(@)]

\* the lifetime check with > for >=: a particle whose age equals its lifetime lives on
lifetime_expired_strict(u) ==
    IF u.p.age > u.p.lifetime THEN reset_in_update(u) ELSE u

\* WindParticle.update, lines 69-71: the lifetime
lifetime_expired(u) ==
    IF u.p.age >= u.p.lifetime THEN reset_in_update(u) ELSE u

\* WindParticle.update: returns the particle, the generator position after it and
\* the generator positions at which reset() was called
update(self, ws, wd, r) ==
    lifetime_expired(vertical_exit(horizontal_exit(Updated(move(self, ws, wd), r, <<>>))))

-----------------------------------------------------------------------------
(* WindSimulation: operators on the record `self` of its fields.  The record *)
(* also carries the generator position rng and what the last call left in    *)
(* the locals gust_duration and progress.                                    *)

\* WindSimulation.init_density_layers
init_density_layers(self) ==
    [self EXCEPT !.density_layers =
        [l \in 1..3 |-> [i \in 1..(self.cols * self.rows) |-> " "]]]

\* the ramp-down without its "1.0 -"
gust_multiplier_ramp_down_rising(p) ==
    IF p < 200 THEN Div(p, 200)
    ELSE IF p < 800 THEN Scale
    ELSE Div(p - 800, 200)

\* update_wind_pattern, lines 166-171: the gust envelope
gust_multiplier(p) ==
    IF p < 200 THEN Div(p, 200)
    ELSE IF p < 800 THEN Scale
    ELSE Scale - Div(p - 800, 200)

\* update_wind_pattern, lines 155-158: a gust starts
gust_start(self) ==
    IF ~self.gust_active /\ Random(self.rng) < (IF self.high_density THEN 10 ELSE 5)
    THEN [self EXCEPT !.gust_active   = TRUE,
                      !.gust_timer    = 0,
                      !.gust_strength = Uniform(2500, 5000, self.rng + 1),
                      !.rng           = Advance(@, 2)]
    ELSE [self EXCEPT !.rng = IF self.gust_active THEN @ ELSE Advance(@, 1)]

\* the end of a gust without line 176: wind_strength keeps the gust's last value
gust_run_keeps_strength(self) ==
    IF self.gust_active
    THEN LET t == self.gust_timer + UPDATE_INTERVAL
             d == Uniform(300, 1200, self.rng)
             s == [self EXCEPT !.gust_timer = t, !.gust_duration = d,
                               !.rng = Advance(@, 1)]
         IN  IF t < d
             THEN [s EXCEPT !.progress = Div(t, d),
                            !.wind_strength =
                                self.base_wind_strength
                                + Mul(self.gust_strength, gust_multiplier(Div(t, d)))]
             ELSE [s EXCEPT !.progress = -1,
                            !.gust_active = FALSE]
    ELSE [self EXCEPT !.gust_duration = 0, !.progress = -1,
                      !.wind_strength = self.base_wind_strength]

\* the gust with its duration drawn from [0.3, 1.5] instead of [0.3, 1.2]
gust_run_longer_duration(self) ==
    IF self.gust_active
    THEN LET t == self.gust_timer + UPDATE_INTERVAL
             d == Uniform(300, 1500, self.rng)
             s == [self EXCEPT !.gust_timer = t, !.gust_duration = d,
                               !.rng = Advance(@, 1)]
         IN  IF t < d
             THEN [s EXCEPT !.progress = Div(t, d),
                            !.wind_strength =
                                self.base_wind_strength
                                + Mul(self.gust_strength, gust_multiplier(Div(t, d)))]
             ELSE [s EXCEPT !.progress = -1,
                            !.gust_active = FALSE,
                            !.wind_strength = self.base_wind_strength]
    ELSE [self EXCEPT !.gust_duration = 0, !.progress = -1,
                      !.wind_strength = self.base_wind_strength]

\* update_wind_pattern, lines 160-178: the gust runs or ends
gust_run(self) ==
    IF self.gust_active
    THEN LET t == self.gust_timer + UPDATE_INTERVAL
             d == Uniform(300, 1200, self.rng)
             s == [self EXCEPT !.gust_timer = t, !.gust_duration = d,
                               !.rng = Advance(@, 1)]
         IN  IF t < d
             THEN [s EXCEPT !.progress = Div(t, d),
                            !.wind_strength =
                                self.base_wind_strength
                                + Mul(self.gust_strength, gust_multiplier(Div(t, d)))]
             ELSE [s EXCEPT !.progress = -1,
                            !.gust_active = FALSE,
                            !.wind_strength = self.base_wind_strength]
    ELSE [self EXCEPT !.gust_duration = 0, !.progress = -1,
                      !.wind_strength = self.base_wind_strength]

\* update_wind_pattern, lines 180-183: the random change of direction
direction_flip(self) ==
    [self EXCEPT
        !.wind_direction = IF Random(self.rng) < (IF self.high_density THEN 3 ELSE 1)
                           THEN @ * (-1) ELSE @,
        !.direction_draw = Random(self.rng),
        !.rng = Advance(@, 1)]

\* the base strength varied around its previous value instead of around 1.2
base_strength_from_previous(self) ==
    LET t == self.wind_variation_timer + UPDATE_INTERVAL
        base_variation == Mul(Sin(Mul(t, 800)), 400)
        secondary_variation == Mul(Cos(Mul(t, 300)), 200)
    IN  [self EXCEPT !.wind_variation_timer = t,
                     !.base_wind_strength =
                         Max(500, self.base_wind_strength
                                  + base_variation + secondary_variation)]

\* update_wind_pattern, lines 146-150: the base strength
base_strength(self) ==
    LET t == self.wind_variation_timer + UPDATE_INTERVAL
        base_variation == Mul(Sin(Mul(t, 800)), 400)
        secondary_variation == Mul(Cos(Mul(t, 300)), 200)
    IN  [self EXCEPT !.wind_variation_timer = t,
                     !.base_wind_strength =
                         Max(500, 1200 + base_variation + secondary_variation)]

\* WindSimulation.update_wind_pattern
update_wind_pattern(self) ==
    direction_flip(gust_run(gust_start(base_strength(self))))

\* generate_particles, lines 187-192
target_count(self) ==
    IF self.high_density
    THEN Min(Trunc(self.cols * self.rows * 150), 2000)
    ELSE Trunc(self.cols * 500)

\* generate_particles, line 197: append
add_particle(self, n) == [self EXCEPT !.particles = Append(@, n.p), !.rng = n.rng]

\* generate_particles, lines 194-197: one turn of the while loop
spawn(self) ==
    add_particle(self,
                 NewParticle(RandInt(0, self.cols - 1, self.rng),
                             RandInt(0, self.rows - 1, self.rng + 1),
                             self.rows, self.cols, self.show_density, self.rng + 2))

\* the while loop of generate_particles running one turn too long (<= for <)
spawn_more_inclusive(self) == Len(self.particles) <= target_count(self)

\* the test of the while loop of generate_particles
spawn_more(self) == Len(self.particles) < target_count(self)

\* generate_particles with `if` for `while`: at most one particle is added per call
generate_particles_once(self) ==
    IF spawn_more(self) THEN spawn(self) ELSE self

RECURSIVE generate_particles(_)
\* WindSimulation.generate_particles
generate_particles(self) ==
    IF spawn_more(self) THEN generate_particles(spawn(self)) ELSE self

\* particle i as its update left it
store_particle(self, i, u) ==
    [self EXCEPT !.particles[i] = u.p, !.rng = u.rng, !.resets = Append(@, u.resets)]

RECURSIVE update_particles(_, _)
\* WindSimulation.update, lines 233-234: particle i and those after it
update_particles(self, i) ==
    IF i > Len(self.particles) THEN self
    ELSE update_particles(
             store_particle(self, i,
                            update(self.particles[i], self.wind_strength,
                                   self.wind_direction, self.rng)),
             i + 1)

\* update_density_map, lines 208-213: one particle written into its layer
write_density(layers, particle, rws, cls) ==
    LET x == Trunc(particle.x)
        y == Trunc(particle.y)
    IN  IF 0 <= x /\ x < cls /\ 0 <= y /\ y < rws
        THEN LET idx == y * cls + x
                 density_char ==
                     WIND_PARTICLES[Min(Trunc(particle.density * Len(WIND_PARTICLES)),
                                        Len(WIND_PARTICLES) - 1) + 1]
                 layer_idx == Min(particle.layer - 1, Len(layers) - 1)
             IN  [layers EXCEPT ![layer_idx + 1][idx + 1] = density_char]
        ELSE layers

RECURSIVE write_all(_, _, _, _, _)
write_all(layers, ps, i, rws, cls) ==
    IF i > Len(ps) THEN layers
    ELSE write_all(write_density(layers, ps[i], rws, cls), ps, i + 1, rws, cls)

\* update_density_map without lines 202-204: the layers are not cleared first
update_density_map_keeps_old(self) ==
    [self EXCEPT !.density_layers =
        write_all(self.density_layers, self.particles, 1, self.rows, self.cols)]

\* WindSimulation.update_density_map
update_density_map(self) ==
    LET cleared == [l \in 1..Len(self.density_layers) |->
                        [i \in 1..Len(self.density_layers[l]) |-> " "]]
    IN  [self EXCEPT !.density_layers =
            write_all(cleared, self.particles, 1, self.rows, self.cols)]

\* WindSimulation.update, lines 237-238
density_step(self) == IF self.show_density THEN update_density_map(self) ELSE self

\* WindSimulation.update
simulation_update(self) ==
    density_step(
        update_particles(
            generate_particles(
                update_wind_pattern(
                    [self EXCEPT !.frame_count = @ + 1, !.resets = <<>>])),
            1))

\* WindSimulation.draw_particles, line 274: sorted(), a stable sort by layer
RECURSIVE insert_by_layer(_, _)
insert_by_layer(sorted, p) ==
    IF sorted = <<>> THEN <<p>>
    ELSE IF sorted[Len(sorted)].layer <= p.layer THEN Append(sorted, p)
    ELSE Append(insert_by_layer(SubSeq(sorted, 1, Len(sorted) - 1), p),
                sorted[Len(sorted)])

RECURSIVE sorted_by_layer(_, _)
sorted_by_layer(ps, n) ==
    IF n = 0 THEN <<>> ELSE insert_by_layer(sorted_by_layer(ps, n - 1), ps[n])

RECURSIVE draw_sorted(_, _, _, _, _)
\* WindSimulation.draw_particles, lines 276-296: addstr for each particle in turn
draw_sorted(scr, ps, i, rws, cls) ==
    IF i > Len(ps) THEN scr
    ELSE LET x == Trunc(ps[i].x)
             y == Trunc(ps[i].y)
         IN  draw_sorted(IF 0 <= y /\ y < rws /\ 0 <= x /\ x < cls
                         THEN [scr EXCEPT ![y * cls + x + 1] = ps[i].char]
                         ELSE scr,
                         ps, i + 1, rws, cls)

\* stdscr.clear()
cleared_screen(self) == [i \in 1..(self.rows * self.cols) |-> " "]

\* draw_particles without line 274: the particles are drawn in population order
draw_particles_unsorted(self) ==
    draw_sorted(cleared_screen(self), self.particles, 1, self.rows, self.cols)

\* WindSimulation.draw_particles
draw_particles(self) ==
    draw_sorted(cleared_screen(self),
                sorted_by_layer(self.particles, Len(self.particles)),
                1, self.rows, self.cols)

RECURSIVE draw_layers(_, _, _)
\* WindSimulation.draw_density: layer l and those above it
draw_layers(scr, layers, l) ==
    IF l > Len(layers) THEN scr
    ELSE draw_layers([i \in DOMAIN scr |->
                          IF layers[l][i] # " " THEN layers[l][i] ELSE scr[i]],
                     layers, l + 1)

\* WindSimulation.draw_density
draw_density(self) == draw_layers(cleared_screen(self), self.density_layers, 1)

\* WindSimulation.draw
draw(self) ==
    [self EXCEPT !.screen = IF self.show_density THEN draw_density(self)
                            ELSE draw_particles(self)]

\* the quit test taking one more key for a quit key
is_quit_also_x(k) == k = "q" \/ k = "Q" \/ k = "ESC" \/ k = "x"

\* wind_simulation, line 342
is_quit(k) == k = "q" \/ k = "Q" \/ k = "ESC"

\* wind_simulation, lines 344-347
toggle_density_view(self) ==
    LET s == [self EXCEPT !.show_density = ~@]
    IN  IF s.show_density THEN init_density_layers(s) ELSE s

\* the density-level toggle without particles.clear()
toggle_density_level_keeps_particles(self) ==
    [self EXCEPT !.high_density = ~@]

\* wind_simulation, lines 348-350
toggle_density_level(self) ==
    [self EXCEPT !.high_density = ~@, !.particles = <<>>]

\* wind_simulation, lines 351-354
change_wind(self, k) ==
    IF k = "+"
    THEN [self EXCEPT !.base_wind_strength = Min(8000, @ + 300)]
    ELSE [self EXCEPT !.base_wind_strength = Max(100, @ - 300)]

\* wind_simulation, lines 355-358
force_direction(self, k) ==
    [self EXCEPT !.wind_direction = IF k = "KEY_RIGHT" THEN 1 ELSE -1]

\* the resize without particles.clear()
resize_keeps_particles(self, size) ==
    init_density_layers([self EXCEPT !.rows = size[1], !.cols = size[2]])

\* a resize that also puts the wind direction back to its initial value
resize_resets_direction(self, size) ==
    init_density_layers([self EXCEPT !.rows = size[1], !.cols = size[2],
                                     !.particles = <<>>, !.wind_direction = 1])

\* the resize without line 362: the density layers keep the size of the old grid
resize_keeps_layers(self, size) ==
    [self EXCEPT !.rows = size[1], !.cols = size[2], !.particles = <<>>]

\* wind_simulation, lines 359-362; size is what stdscr.getmaxyx() returns
resize(self, size) ==
    init_density_layers([self EXCEPT !.rows = size[1], !.cols = size[2],
                                     !.particles = <<>>])

\* wind_simulation, lines 344-362: the effect of a key other than a quit key
handle_key(self, k, size) ==
    IF k \in {"d", "D"} THEN toggle_density_view(self)
    ELSE IF k \in {"h", "H"} THEN toggle_density_level(self)
    ELSE IF k \in {"+", "-"} THEN change_wind(self, k)
    ELSE IF k \in {"KEY_RIGHT", "KEY_LEFT"} THEN force_direction(self, k)
    ELSE IF k = "KEY_RESIZE" THEN resize(self, size)
    ELSE self

-----------------------------------------------------------------------------
(* main: operators on the record `m` of the terminal mode, the printed text   *)
(* and the exit status                                                        *)

\* curses.initscr(), called by curses.wrapper on line 402
initscr(m) == [m EXCEPT !.terminal = TRUE]

\* curses.endwin(), lines 405 and 414 (outside curses mode it raises curses.error,
\* which lines 406-407 and 415-416 swallow)
endwin(m) == [m EXCEPT !.terminal = FALSE]

\* print()
print(m, text) ==
    [m EXCEPT !.stdout = Append(@, [text |-> text, terminal |-> m.terminal])]

\* curses.wrapper on line 402 returning or passing an exception on: it ends the
\* curses mode that it started
wrapper_exit(m) == IF m.terminal THEN endwin(m) ELSE m

\* main, lines 408-409, 411 and 417: what the handlers print
report(m, e) ==
    IF e = "curses.error" THEN print(print(m, "Curses error"), "Try resizing terminal")
    ELSE IF e = "KeyboardInterrupt" THEN print(m, "Exiting wind simulation")
    ELSE print(m, "Unexpected error")

\* main, lines 403-417: the except clauses
main_except(m, e) ==
    IF e = "KeyboardInterrupt" THEN report(m, e) ELSE report(endwin(m), e)

\* main returns (lines 374 and 417) and the interpreter ends the process
main_return(m) == [m EXCEPT !.exit_status = 0]

\* the exception reported where it is raised, in the curses session, and the
\* terminal restored afterwards
escape_reports_in_session(m, e) == main_return(wrapper_exit(endwin(report(m, e))))

\* main, lines 401-417: exception e leaves wind_simulation
escape(m, e) == main_return(main_except(wrapper_exit(m), e))

\* main, lines 372-402, up to the first getch() of wind_simulation: tty is the test
\* on line 372; outcome tells whether initscr() in curses.wrapper or curs_set(0)
\* on line 333 raised curses.error
main_start(m, tty, outcome) ==
    IF ~tty THEN main_return(print(m, "Error: This script requires a TTY"))
    ELSE IF outcome = "initscr" THEN escape(m, "curses.error")
    ELSE IF outcome = "curs_set" THEN escape(initscr(m), "curses.error")
    ELSE initscr(m)

\* main, line 402: wind_simulation returned after the break on line 343
main_quit(m) == main_return(wrapper_exit(m))

-----------------------------------------------------------------------------
(* Bounds and inputs *)

\* the loop is explored for this many frames
MaxFrames == 3

\* the wind field on its own is explored for this many calls
MaxWindTicks == 45

\* terminal sizes (rows, cols) returned by stdscr.getmaxyx()
Sizes == {<<1, 7>>, <<2, 4>>, <<2, 7>>}

\* getch(): "none" is -1 (no key), "x" a key the loop does not handle
Keys == {"q", "Q", "ESC"} \cup {"none", "x", "d", "D", "h", "H", "+", "-",
                       "KEY_RIGHT", "KEY_LEFT", "KEY_RESIZE"}

\* wind strengths and directions given to WindParticle.update on its own
Strengths == {500, 6800}

Directions == {1, -1}

\* terminal sizes and generator positions for a particle explored on its own
ParticleSizes == {<<2, 4>>}

ParticleSeeds == {7, 11}

\* the terminal size of the frames of a full population (the low-density target of
\* a grid of four columns is two particles), and the generator positions of its
\* frames
DrawSizes == {<<1, 4>>}

DrawSeeds == {1, 6}

\* what can be raised inside wind_simulation, and how its start can end
Failures == {"curses.error", "KeyboardInterrupt", "Exception"}

StartOutcomes == {"ok", "initscr", "curs_set"}

-----------------------------------------------------------------------------
(* State machine *)

Self ==
    [show_density |-> show_density, high_density |-> high_density,
     wind_strength |-> wind_strength, wind_direction |-> wind_direction,
     base_wind_strength |-> base_wind_strength,
     wind_variation_timer |-> wind_variation_timer,
     gust_timer |-> gust_timer, gust_active |-> gust_active,
     gust_strength |-> gust_strength, gust_duration |-> gust_duration,
     progress |-> progress, particles |-> particles, rows |-> rows, cols |-> cols,
     frame_count |-> frame_count, density_layers |-> density_layers,
     direction_draw |-> direction_draw, screen |-> screen,
     rng |-> rng, resets |-> resets]

Install(s) ==
    /\ show_density' = s.show_density
    /\ high_density' = s.high_density
    /\ wind_strength' = s.wind_strength
    /\ wind_direction' = s.wind_direction
    /\ base_wind_strength' = s.base_wind_strength
    /\ wind_variation_timer' = s.wind_variation_timer
    /\ gust_timer' = s.gust_timer
    /\ gust_active' = s.gust_active
    /\ gust_strength' = s.gust_strength
    /\ gust_duration' = s.gust_duration
    /\ progress' = s.progress
    /\ particles' = s.particles
    /\ rows' = s.rows
    /\ cols' = s.cols
    /\ frame_count' = s.frame_count
    /\ density_layers' = s.density_layers
    /\ direction_draw' = s.direction_draw
    /\ screen' = s.screen
    /\ rng' = s.rng
    /\ resets' = s.resets

\* WindSimulation.__init__ for a terminal of the given size and the given flags
Construct(size, sd, hd, seed) ==
    init_density_layers(
        [show_density |-> sd, high_density |-> hd,
         wind_strength |-> 1000, wind_direction |-> 1,
         base_wind_strength |-> 1000, wind_variation_timer |-> 0,
         gust_timer |-> 0, gust_active |-> FALSE, gust_strength |-> 0,
         gust_duration |-> 0, progress |-> -1,
         particles |-> <<>>, rows |-> size[1], cols |-> size[2],
         frame_count |-> 0, density_layers |-> <<>>,
         direction_draw |-> -1,
         screen |-> [i \in 1..(size[1] * size[2]) |-> " "],
         rng |-> seed, resets |-> <<>>])

\* the process inside curses.wrapper: the terminal in curses mode, nothing printed,
\* not exited
InSession ==
    /\ terminal = TRUE
    /\ stdout = <<>>
    /\ exit_status = -1

\* wind_simulation up to the first getch()
Init ==
    \E size \in Sizes, sd \in BOOLEAN, hd \in BOOLEAN, seed \in Seeds :
        LET s == Construct(size, sd, hd, seed)
        IN  /\ running = TRUE
            /\ key = "none"
            /\ show_density = s.show_density
            /\ high_density = s.high_density
            /\ wind_strength = s.wind_strength
            /\ wind_direction = s.wind_direction
            /\ base_wind_strength = s.base_wind_strength
            /\ wind_variation_timer = s.wind_variation_timer
            /\ gust_timer = s.gust_timer
            /\ gust_active = s.gust_active
            /\ gust_strength = s.gust_strength
            /\ gust_duration = s.gust_duration
            /\ progress = s.progress
            /\ particles = s.particles
            /\ rows = s.rows
            /\ cols = s.cols
            /\ frame_count = s.frame_count
            /\ density_layers = s.density_layers
            /\ direction_draw = s.direction_draw
            /\ screen = s.screen
            /\ rng = s.rng
            /\ resets = s.resets
            /\ InSession

\* one turn of the loop of wind_simulation, lines 339-369
Turn(k, size) ==
    /\ running
    /\ key' = k
    /\ IF is_quit(k)
       THEN /\ running' = FALSE
            /\ UNCHANGED <<show_density, high_density, wind_strength, wind_direction,
                           base_wind_strength, wind_variation_timer, gust_timer,
                           gust_active, gust_strength, gust_duration, progress,
                           particles, rows, cols, frame_count, density_layers,
                           direction_draw, screen, rng, resets>>
       ELSE /\ frame_count < MaxFrames
            /\ running' = TRUE
            /\ Install(draw(simulation_update(handle_key(Self, k, size))))

\* a turn of the loop seen without the process around it
Loop(k, size) ==
    /\ Turn(k, size)
    /\ UNCHANGED main_vars

Next ==
    \/ \E k \in Keys \ {"KEY_RESIZE"} : Loop(k, <<rows, cols>>)
    \/ \E size \in Sizes : Loop("KEY_RESIZE", size)

Spec == Init /\ [][Next]_vars

-----------------------------------------------------------------------------
(* The wind field on its own: update_wind_pattern from any generator position *)

WindAdvance(seed) ==
    /\ wind_variation_timer < MaxWindTicks * UPDATE_INTERVAL
    /\ Install([update_wind_pattern([Self EXCEPT !.rng = seed]) EXCEPT !.rng = rng])
    /\ UNCHANGED <<running, key>>
    /\ UNCHANGED main_vars

NextWind == \E seed \in Seeds : WindAdvance(seed)

InitWind ==
    /\ Init
    /\ <<rows, cols>> = <<2, 7>>
    /\ ~show_density
    /\ rng = 0

SpecWind == InitWind /\ [][NextWind]_vars

-----------------------------------------------------------------------------
(* One particle on its own: WindParticle.update for any wind and any          *)
(* generator position                                                         *)

InitParticle ==
    \E size \in ParticleSizes, seed \in ParticleSeeds :
      \E x \in 0..(size[2] - 1), y \in 0..(size[1] - 1) :
        /\ running = TRUE
        /\ key = "none"
        /\ show_density = FALSE
        /\ high_density = TRUE
        /\ wind_strength = 1000
        /\ wind_direction = 1
        /\ base_wind_strength = 1000
        /\ wind_variation_timer = 0
        /\ gust_timer = 0
        /\ gust_active = FALSE
        /\ gust_strength = 0
        /\ gust_duration = 0
        /\ progress = -1
        /\ particles = <<NewParticle(x, y, size[1], size[2], FALSE, seed).p>>
        /\ rows = size[1]
        /\ cols = size[2]
        /\ frame_count = 0
        /\ density_layers = Construct(size, FALSE, TRUE, 0).density_layers
        /\ direction_draw = -1
        /\ screen = Construct(size, FALSE, TRUE, 0).screen
        /\ rng = 0
        /\ resets = <<<<>>>>
        /\ InSession

ParticleUpdate(ws, wd, seed) ==
        /\ wind_strength' = ws
        /\ wind_direction' = wd
        /\ particles' = <<update(particles[1], ws, wd, seed).p>>
        /\ resets' = <<update(particles[1], ws, wd, seed).resets>>
        /\ UNCHANGED <<running, key, show_density, high_density, base_wind_strength,
                       wind_variation_timer, gust_timer, gust_active, gust_strength,
                       gust_duration, progress, rows, cols, frame_count,
                       density_layers, direction_draw, screen, rng>>
        /\ UNCHANGED main_vars

NextParticle ==
    \E ws \in Strengths, wd \in Directions, seed \in ParticleSeeds :
        ParticleUpdate(ws, wd, seed)

SpecParticle == InitParticle /\ [][NextParticle]_vars

-----------------------------------------------------------------------------
(* The compositor and the renderer on a full population: frames of any two    *)
(* particles, drawn from any generator position                               *)

\* a population of two particles, created anywhere on the grid from any generator
\* positions, as the first frame mapped and drew it
Populated(size, sd, x1, s1, x2, s2) ==
    draw(density_step(
        [Construct(size, sd, FALSE, 0) EXCEPT
            !.particles = <<NewParticle(x1, 0, size[1], size[2], sd, s1).p,
                            NewParticle(x2, 0, size[1], size[2], sd, s2).p>>,
            !.resets = <<<<>>, <<>>>>]))

InitDraw ==
    \E size \in DrawSizes, sd \in BOOLEAN, s1 \in Seeds, s2 \in Seeds :
      \E x1 \in 0..(size[2] - 1), x2 \in 0..(size[2] - 1) :
        LET s == Populated(size, sd, x1, s1, x2, s2)
        IN  /\ running = TRUE
            /\ key = "none"
            /\ show_density = s.show_density
            /\ high_density = s.high_density
            /\ wind_strength = s.wind_strength
            /\ wind_direction = s.wind_direction
            /\ base_wind_strength = s.base_wind_strength
            /\ wind_variation_timer = s.wind_variation_timer
            /\ gust_timer = s.gust_timer
            /\ gust_active = s.gust_active
            /\ gust_strength = s.gust_strength
            /\ gust_duration = s.gust_duration
            /\ progress = s.progress
            /\ particles = s.particles
            /\ rows = s.rows
            /\ cols = s.cols
            /\ frame_count = s.frame_count
            /\ density_layers = s.density_layers
            /\ direction_draw = s.direction_draw
            /\ screen = s.screen
            /\ rng = s.rng
            /\ resets = s.resets
            /\ InSession

\* a turn of the loop in which no key was pressed, lines 365-366
Frame(seed) ==
    /\ frame_count < MaxFrames
    /\ Install([draw(simulation_update([Self EXCEPT !.rng = seed])) EXCEPT !.rng = rng])
    /\ UNCHANGED <<running, key>>
    /\ UNCHANGED main_vars

NextDraw == \E seed \in DrawSeeds : Frame(seed)

SpecDraw == InitDraw /\ [][NextDraw]_vars

-----------------------------------------------------------------------------
(* The process: main around wind_simulation *)

Main == [terminal |-> terminal, stdout |-> stdout, exit_status |-> exit_status]

InstallMain(m) ==
    /\ terminal' = m.terminal
    /\ stdout' = m.stdout
    /\ exit_status' = m.exit_status

simulation_vars ==
    <<show_density, high_density, wind_strength, wind_direction, base_wind_strength,
      wind_variation_timer, gust_timer, gust_active, gust_strength, gust_duration,
      progress, particles, rows, cols, frame_count, density_layers, direction_draw,
      screen, rng, resets>>

\* the process at the start of main; the fields of the simulation hold what the
\* constructor gives them for the terminal and the arguments of this process
InitMain ==
    \E size \in Sizes, sd \in BOOLEAN, hd \in BOOLEAN :
        LET s == Construct(size, sd, hd, 0)
        IN  /\ running = FALSE
            /\ key = "none"
            /\ show_density = s.show_density
            /\ high_density = s.high_density
            /\ wind_strength = s.wind_strength
            /\ wind_direction = s.wind_direction
            /\ base_wind_strength = s.base_wind_strength
            /\ wind_variation_timer = s.wind_variation_timer
            /\ gust_timer = s.gust_timer
            /\ gust_active = s.gust_active
            /\ gust_strength = s.gust_strength
            /\ gust_duration = s.gust_duration
            /\ progress = s.progress
            /\ particles = s.particles
            /\ rows = s.rows
            /\ cols = s.cols
            /\ frame_count = s.frame_count
            /\ density_layers = s.density_layers
            /\ direction_draw = s.direction_draw
            /\ screen = s.screen
            /\ rng = s.rng
            /\ resets = s.resets
            /\ terminal = FALSE
            /\ stdout = <<>>
            /\ exit_status = -1

\* main up to the first getch()
Start(tty, outcome) ==
    /\ ~running
    /\ ~terminal
    /\ exit_status = -1
    /\ running' = (tty /\ outcome = "ok")
    /\ InstallMain(main_start(Main, tty, outcome))
    /\ UNCHANGED key
    /\ UNCHANGED simulation_vars

\* a turn of the loop; a quit key ends wind_simulation, curses.wrapper and main
MainLoop(k, size) ==
    /\ Turn(k, size)
    /\ IF is_quit(k) THEN InstallMain(main_quit(Main)) ELSE UNCHANGED main_vars

\* exception e raised in a turn of the loop
Raise(e) ==
    /\ running
    /\ running' = FALSE
    /\ InstallMain(escape(Main, e))
    /\ UNCHANGED key
    /\ UNCHANGED simulation_vars

NextMain ==
    \/ \E tty \in BOOLEAN, outcome \in StartOutcomes : Start(tty, outcome)
    \/ \E k \in Keys \ {"KEY_RESIZE"} : MainLoop(k, <<rows, cols>>)
    \/ \E size \in Sizes : MainLoop("KEY_RESIZE", size)
    \/ \E e \in Failures : Raise(e)

SpecMain == InitMain /\ [][NextMain]_vars

-----------------------------------------------------------------------------
(* Claims *)

ParticleSet == {particles[i] : i \in 1..Len(particles)}

\* C1 as stated: after WindParticle.update every particle has 0 <= x < max_cols
\* and 0 <= y <= max_rows - 1, whether or not it was reset.
C1_PositionAtMostLastRow ==
    \A p \in ParticleSet :
        /\ 0 <= p.x /\ p.x < p.max_cols * Scale
        /\ 0 <= p.y /\ p.y <= (p.max_rows - 1) * Scale

\* C1 amended: after WindParticle.update every particle has 0 <= x < max_cols and
\* 0 <= y < max_rows (its cell int(y) is at most max_rows - 1), whether or not it
\* was reset.
C1_PositionInGrid ==
    \A p \in ParticleSet :
        /\ 0 <= p.x /\ p.x < p.max_cols * Scale
        /\ 0 <= p.y /\ p.y < p.max_rows * Scale

\* an updated particle that was not reset lies strictly between the last row's
\* coordinate and the lower edge
C1_Witness ==
    \E i \in 1..Len(particles) :
        /\ resets[i] = <<>>
        /\ particles[i].age > 0
        /\ particles[i].y > (particles[i].max_rows - 1) * Scale
        /\ particles[i].y < particles[i].max_rows * Scale


\* the target population the claims state: min(2000, floor(rows*cols*0.15)) in
\* high-density mode, floor(cols*0.5) otherwise
ClaimedTarget(hd, rws, cls) ==
    IF hd
    THEN (IF (rws * cls * 15) \div 100 < 2000 THEN (rws * cls * 15) \div 100 ELSE 2000)
    ELSE cls \div 2

\* C2: in every state reached by ticks and commands, while high_density is true
\* the number of particles is at most min(2000, floor(rows*cols*0.15)) for the
\* current rows and cols.
C2_HighDensityPopulationBounded ==
    high_density => Len(particles) <= ClaimedTarget(TRUE, rows, cols)

\* a resize in high-density mode after earlier frames, with the population at its
\* target of two
C2_Witness ==
    /\ high_density
    /\ key = "KEY_RESIZE"
    /\ frame_count >= 2
    /\ Len(particles) = 2
    /\ ClaimedTarget(TRUE, rows, cols) = 2

\* C3: after a resize no particle created against the old grid survives (every
\* particle left by the turn of the loop that handled KEY_RESIZE was created in
\* that turn), and after every turn every particle's max_rows, max_cols equal the
\* current rows, cols and its coordinates lie inside the current grid.
C3_NoParticleOfOldGrid ==
    [][\A i \in 1..Len(particles') :
          /\ particles'[i].max_rows = rows'
          /\ particles'[i].max_cols = cols'
          /\ 0 <= particles'[i].x /\ particles'[i].x < cols' * Scale
          /\ 0 <= particles'[i].y /\ particles'[i].y < rows' * Scale
          /\ (key' = "KEY_RESIZE" => particles'[i].age <= UPDATE_INTERVAL)]_vars

\* a resize to the 2 x 4 grid after two earlier frames, with particles on the grid
C3_Witness ==
    /\ key = "KEY_RESIZE"
    /\ frame_count = 3
    /\ <<rows, cols>> = <<2, 4>>
    /\ Len(particles) > 0

\* C4: the turn of the loop that handles 'h'/'H' flips the mode and ends with a
\* population made only of particles created in that turn, equal in number to the
\* new mode's target; and after every turn the population is at most the target of
\* the current mode.
C4_ToggleClearsThenFills ==
    [][/\ key' \in {"h", "H"} =>
            /\ high_density' = ~high_density
            /\ \A i \in 1..Len(particles') : particles'[i].age <= UPDATE_INTERVAL
            /\ Len(particles') = ClaimedTarget(high_density', rows', cols')
       /\ Len(particles') <= ClaimedTarget(high_density', rows', cols')]_vars

\* a toggle from normal density (three particles on 7 columns) to high density
\* (one particle on 1 x 7) after two earlier frames
C4_Witness ==
    /\ key \in {"h", "H"}
    /\ frame_count = 3
    /\ high_density
    /\ <<rows, cols>> = <<1, 7>>
    /\ Len(particles) = 1


\* C5 as stated: the duration of a gust is sampled once and stays fixed while the
\* gust is active, so that progress never decreases during a gust and the gust
\* ends against that same duration.
C5_DurationFixedDuringGust ==
    [][/\ gust_active => gust_duration' = gust_duration
       /\ gust_active /\ gust_active' => progress' >= progress]_vars

\* C6: at the end of every update_wind_pattern, wind_strength equals
\* base_wind_strength if and only if no gust is active.
C6_StrengthIsBaseIffNoGust ==
    (wind_strength = base_wind_strength) <=> ~gust_active

\* the call in which a gust ended: a duration was sampled, the gust is over and the
\* strength is back at the base strength
C6_Witness ==
    /\ ~gust_active
    /\ gust_duration > 0
    /\ gust_timer >= gust_duration
    /\ wind_strength = base_wind_strength

\* the envelope C7 states: p/0.2 below 0.2, 1.0 below 0.8, 1 - (p - 0.8)/0.2 from 0.8
ClaimedMultiplier(p) ==
    IF p < 200 THEN (p * Scale) \div 200
    ELSE IF p < 800 THEN Scale
    ELSE Scale - ((p - 800) * Scale) \div 200

\* C7: while a gust is active with progress p in [0,1), wind_strength is
\* base_wind_strength + gust_strength * m(p) for the stated envelope m; the
\* multiplier the code computes lies in [0,1] and moves by at most 0.005 from one
\* thousandth of progress to the next (no jump at 0.2 or 0.8).
C7_GustEnvelope ==
    gust_active =>
        /\ 0 <= progress /\ progress < Scale
        /\ wind_strength
             = base_wind_strength + (gust_strength * ClaimedMultiplier(progress)) \div Scale
        /\ \A p \in {progress - 1, progress, progress + 1} \cap (0 .. (Scale - 1)) :
              /\ 0 <= gust_multiplier(p) /\ gust_multiplier(p) <= Scale
              /\ gust_multiplier(progress) - gust_multiplier(p) \in -5 .. 5

\* a gust in its ramp-down: progress 0.8 or more
C7_Witness ==
    /\ gust_active
    /\ progress >= 800
    /\ wind_strength < base_wind_strength + gust_strength


\* C8: in a turn of the loop wind_direction changes only by a left/right arrow key
\* and by the random flip of update_wind_pattern: its new value is the value the
\* arrow key forces (the old value for any other key), negated exactly when the
\* draw on line 182 was below direction_chance; a quit leaves it alone.
C8_DirectionOnlyByFlipOrArrow ==
    [][IF running'
       THEN wind_direction'
              = (IF direction_draw' < (IF high_density' THEN 3 ELSE 1) THEN -1 ELSE 1)
                * (IF key' = "KEY_RIGHT" THEN 1
                   ELSE IF key' = "KEY_LEFT" THEN -1
                   ELSE wind_direction)
       ELSE wind_direction' = wind_direction]_vars

\* a turn that handled a resize, spawned particles, reset one of them and in which
\* the random flip fired
C8_Witness ==
    /\ running
    /\ key = "KEY_RESIZE"
    /\ direction_draw >= 0
    /\ direction_draw < (IF high_density THEN 3 ELSE 1)
    /\ \E i \in 1..Len(particles) : resets[i] # <<>>

\* a particle with the given bounds and no sampled value
BlankParticle(max_rows, max_cols) ==
    [x |-> -1, y |-> -1, max_rows |-> max_rows, max_cols |-> max_cols, speed |-> -1,
     char |-> "blank", amplitude |-> -1, frequency |-> -1, phase |-> -1,
     original_x |-> -1, lifetime |-> -1, age |-> -1, density_char |-> "blank",
     density |-> -1, density_mode |-> FALSE, layer |-> -1, opacity |-> -1]

ResampledFields ==
    {"speed", "char", "amplitude", "frequency", "phase", "lifetime", "age",
     "density", "density_char", "layer", "opacity"}

\* C9: a particle that was reset has age 0, lifetime in [2,6], speed in [0.5,1.5],
\* amplitude in [0.8,3.0], frequency in [0.2,0.5] and layer in {1,2,3}, and each of
\* speed, glyph, amplitude, frequency, phase, lifetime, density, density glyph,
\* layer and opacity is what the same draws give to any other particle: none
\* depends on the particle before the reset.
C9_ResetIsFresh ==
    \A i \in 1..Len(particles) :
        resets[i] # <<>> =>
            LET p == particles[i]
                f == reset(BlankParticle(p.max_rows, p.max_cols),
                           resets[i][Len(resets[i])]).p
            IN  /\ p.age = 0
                /\ 2000 <= p.lifetime /\ p.lifetime <= 6000
                /\ 500 <= p.speed /\ p.speed <= 1500
                /\ 800 <= p.amplitude /\ p.amplitude <= 3000
                /\ 200 <= p.frequency /\ p.frequency <= 500
                /\ p.layer \in {1, 2, 3}
                /\ \A fld \in ResampledFields : p[fld] = f[fld]

\* a particle reset by its last update
C9_Witness ==
    \E i \in 1..Len(particles) :
        /\ resets[i] # <<>>
        /\ particles[i].age = 0
        /\ particles[i].layer = 3

\* what draw() leaves on the screen: in particle mode a glyph in the cell of every
\* particle, in density mode a glyph exactly in the cells some layer fills
Drawn ==
    IF show_density
    THEN \A c \in DOMAIN screen :
            (screen[c] # " ") <=> (\E l \in 1..3 : density_layers[l][c] # " ")
    ELSE \A i \in 1..Len(particles) :
            screen[Trunc(particles[i].y) * cols + Trunc(particles[i].x) + 1] # " "

\* C10: a turn of the loop starts only while the loop is running; it ends the loop
\* exactly when the polled key is q, Q or Esc, and then nothing is updated or
\* drawn; for any other key or no key it updates (one more frame) and draws and
\* the loop keeps running.
C10_StopsOnlyOnQuitKey ==
    [][/\ running
       /\ IF key' \in {"q", "Q", "ESC"}
          THEN /\ ~running'
               /\ frame_count' = frame_count
               /\ UNCHANGED <<particles, wind_variation_timer, screen, rng>>
          ELSE /\ running'
               /\ frame_count' = frame_count + 1
               /\ wind_variation_timer' = wind_variation_timer + UPDATE_INTERVAL
               /\ Drawn']_vars

\* the loop stopped by a quit key after it ran for some frames
C10_Witness ==
    /\ ~running
    /\ key \in {"q", "Q", "ESC"}
    /\ frame_count >= 2


\* C15: after every WindParticle.update the age of the particle is at least 0 and
\* below its lifetime (a particle whose age reached its lifetime was reset by the
\* last step of update), and reset() was called at most once in that update.
C15_AgeBelowLifetime ==
    \A i \in 1..Len(particles) :
        /\ 0 <= particles[i].age
        /\ particles[i].age < particles[i].lifetime
        /\ Len(resets[i]) <= 1

\* a particle that has been updated up to the last tick before its age reaches its
\* lifetime: its next update ends in the lifetime check
C15_Witness ==
    \E i \in 1..Len(particles) :
        /\ particles[i].age > 0
        /\ particles[i].age + UPDATE_INTERVAL >= particles[i].lifetime


\* C16: a gust ends by the passing of ticks alone.  Its timer is 0.03 at the end of
\* the tick that started it and grows by 0.03 in every later tick; a gust still
\* active at the end of a tick has a timer below 1.2 s, so the tick in which the
\* timer reaches 1.2 s (the 40th) ends it at the latest; and the tick that ends a
\* gust leaves a timer of at least 0.3 s.
C16_GustEndsBetweenBounds ==
    [][/\ gust_active' => /\ gust_timer' < 1200
                          /\ gust_timer' = (IF gust_active THEN gust_timer ELSE 0)
                                           + UPDATE_INTERVAL
       /\ gust_active /\ ~gust_active' => /\ gust_timer' = gust_timer + UPDATE_INTERVAL
                                          /\ 300 <= gust_timer'
                                          /\ gust_timer' <= 1200
       /\ ~gust_active /\ ~gust_active' => gust_timer' = gust_timer]_vars

\* a gust that lasted as long as a gust can: ended by the tick in which its timer
\* reached 1.2 s
C16_Witness ==
    /\ ~gust_active
    /\ gust_timer = 1200
    /\ gust_duration > 0
    /\ wind_strength = base_wind_strength


\* C17: at the end of every tick the number of particles is exactly the target of
\* the current mode and grid, min(2000, floor(rows*cols*0.15)) in high-density mode
\* and floor(cols*0.5) otherwise: the spawn step fills the population up to the
\* target and the updates and resets that follow it keep every particle.
C17_PopulationIsTarget ==
    frame_count >= 1 =>
        /\ Len(particles) = ClaimedTarget(high_density, rows, cols)
        /\ Len(resets) = Len(particles)

\* the end of a tick that filled the population to a target of two or more and then
\* reset one of the particles
C17_Witness ==
    /\ frame_count >= 1
    /\ Len(particles) >= 2
    /\ \E i \in 1..Len(particles) : resets[i] # <<>>


\* the particles of layer l (1, 2 or 3) whose truncated coordinates are cell c
InCell(l, c) ==
    {i \in 1..Len(particles) :
        /\ particles[i].layer = l
        /\ Trunc(particles[i].y) * cols + Trunc(particles[i].x) + 1 = c}

\* the last of a non-empty set of particles in population order
LastOf(S) == CHOOSE i \in S : \A j \in S : j <= i

\* the glyph C13 states for a density d: WIND_PARTICLES[min(int(d * 8), 7)]
ClaimedDensityGlyph(d) ==
    WIND_PARTICLES[(IF (d * 8) \div Scale < 7 THEN (d * 8) \div Scale ELSE 7) + 1]

\* C13: while the density view is on, update_density_map has left in every cell of
\* every layer the glyph WIND_PARTICLES[min(int(density*8), 7)] of the last
\* particle, in population order, of that layer whose truncated coordinates are the
\* cell, and a blank where there is no such particle: nothing of an earlier tick
\* survives.
C13_DensityMapIsCurrent ==
    show_density =>
        \A l \in 1..3 : \A c \in 1..(rows * cols) :
            density_layers[l][c]
                = IF InCell(l, c) = {} THEN " "
                  ELSE ClaimedDensityGlyph(particles[LastOf(InCell(l, c))].density)

\* the density map of a later tick in which two particles of one layer share a
\* cell and would write different glyphs
C13_Witness ==
    /\ show_density
    /\ frame_count >= 2
    /\ \E l \in 1..3 : \E c \in 1..(rows * cols) :
          \E i, j \in InCell(l, c) :
              /\ i < j
              /\ ClaimedDensityGlyph(particles[i].density)
                     # ClaimedDensityGlyph(particles[j].density)


\* the particles whose truncated coordinates are cell c
Occupants(c) ==
    {i \in 1..Len(particles) :
        Trunc(particles[i].y) * cols + Trunc(particles[i].x) + 1 = c}

\* the occupant of cell c that C14 names: of maximum layer, and the latest in
\* population order among those of that layer
TopOccupant(c) ==
    CHOOSE i \in Occupants(c) :
        \A j \in Occupants(c) :
            \/ particles[j].layer < particles[i].layer
            \/ particles[j].layer = particles[i].layer /\ j <= i

\* C14: in particle mode the glyph draw_particles leaves in a cell is the glyph of
\* the occupant of maximum layer, the latest in population order among occupants
\* of that layer (the particles are written in ascending order of layer), and a
\* cell without occupant is blank.
C14_TopLayerGlyphWins ==
    ~show_density =>
        \A c \in 1..(rows * cols) :
            screen[c] = IF Occupants(c) = {} THEN " "
                        ELSE particles[TopOccupant(c)].char

\* a frame drawn with two particles in one cell, the earlier one of the higher
\* layer and of another glyph
C14_Witness ==
    /\ ~show_density
    /\ frame_count >= 1
    /\ \E c \in 1..(rows * cols) : \E i, j \in Occupants(c) :
          /\ i < j
          /\ particles[i].layer > particles[j].layer
          /\ particles[i].char # particles[j].char


\* the base strength as a function of the variation timer alone
BaseAt(t) ==
    Max(500, 1200 + Mul(Sin(Mul(t, 800)), 400) + Mul(Cos(Mul(t, 300)), 200))

\* C18: the '+' and '-' commands do not reach the wind applied to the particles.
\* The value either command writes lies in [0.1, 8.0]; after every tick the base
\* strength is the function of the variation timer alone; and the tick that
\* follows a '+' or '-' leaves the wind (strength, base strength, direction, gust)
\* exactly as the same tick, with the same draws, leaves it without the command.
C18_WindCommandHasNoEffect ==
    [][/\ \A k \in {"+", "-"} :
            /\ 100 <= change_wind(Self, k).base_wind_strength
            /\ change_wind(Self, k).base_wind_strength <= 8000
       /\ running' => base_wind_strength' = BaseAt(wind_variation_timer')
       /\ key' \in {"+", "-"} =>
            /\ change_wind(Self, key').base_wind_strength # base_wind_strength
            /\ <<wind_strength', base_wind_strength', wind_direction', gust_active',
                 gust_timer', gust_strength'>>
               = <<update_wind_pattern(Self).wind_strength,
                   update_wind_pattern(Self).base_wind_strength,
                   update_wind_pattern(Self).wind_direction,
                   update_wind_pattern(Self).gust_active,
                   update_wind_pattern(Self).gust_timer,
                   update_wind_pattern(Self).gust_strength>>]_vars

\* a tick that followed a '+' while a gust was blowing
C18_Witness ==
    /\ key = "+"
    /\ frame_count >= 2
    /\ gust_active
    /\ wind_strength > base_wind_strength


\* C19: in every state there are exactly three density layers, each of exactly
\* rows * cols cells for the current rows and cols, so that the index y * cols + x
\* of every cell 0 <= x < cols, 0 <= y < rows lies within each layer.
C19_LayersMatchGrid ==
    /\ Len(density_layers) = 3
    /\ \A l \in 1..3 :
          /\ Len(density_layers[l]) = rows * cols
          /\ \A x \in 0..(cols - 1), y \in 0..(rows - 1) :
                y * cols + x + 1 \in DOMAIN density_layers[l]

\* the density view in the turn of a resize after earlier frames, with a glyph in
\* the last cell of a layer
C19_Witness ==
    /\ key = "KEY_RESIZE"
    /\ frame_count >= 2
    /\ show_density
    /\ \E l \in 1..3 : density_layers[l][rows * cols] # " "


\* C11: a process ended by a curses error that escaped the loop has a non-zero
\* exit status, and a process ended by an ordinary quit has exit status zero.
C11_ExitStatusTellsFailure ==
    exit_status # -1 =>
        /\ (\E i \in 1..Len(stdout) : stdout[i].text = "Curses error") => exit_status # 0
        /\ (stdout = <<>> /\ key \in {"q", "Q", "ESC"}) => exit_status = 0

\* C12: every text the process prints is printed outside curses mode: a failure
\* raised inside the loop is reported only after the terminal was restored, and a
\* process that has ended has left curses mode.
C12_TeardownBeforeReport ==
    /\ \A i \in 1..Len(stdout) : ~stdout[i].terminal
    /\ exit_status # -1 => ~terminal

\* an exception other than curses.error raised after two frames and reported
C12_Witness ==
    /\ frame_count >= 2
    /\ exit_status # -1
    /\ ~terminal
    /\ \E i \in 1..Len(stdout) : stdout[i].text = "Unexpected error"

====
